---- MODULE Spec2Model ----
(***************************************************************************)
(* Model of script.py: the Black-Scholes option scanner.                   *)
(*                                                                         *)
(* Numbers.  Python floats are modelled in fixed point with four decimal   *)
(* places: the integer n stands for n / 10000 (prices, volatilities, the   *)
(* rate).  A time to expiration is kept exactly, in units of 1/3650000 of  *)
(* a year, so that both days/365.0 (= days * 10000 units) and the clamp    *)
(* 0.0001 (= 365 units) are whole numbers.  ln, exp, sqrt and the normal   *)
(* CDF are computed by integer series and a table; IEEE division by zero   *)
(* (inf, nan) is modelled explicitly.                                      *)
(*                                                                         *)
(* Text.  A JSON value of a row is a record [type, text]: type is "null",  *)
(* "str" or "num" and text is the literal.  A date string "YYYY-MM-DD" is  *)
(* the triple <<Y, M, D>> of its three fields.                             *)
(***************************************************************************)
EXTENDS Integers, Sequences, FiniteSets, TLC

VARIABLES
    pc,                   \* position of scan_options
    test_date,            \* argument of scan_options
    response,             \* what requests.get produced
    fetchCount,           \* number of requests.get calls
    clientOpen,           \* the MongoClient is open
    options_data,         \* rows returned by fetch_dolthub_options
    idx,                  \* rows the for loop has finished
    log,                  \* the "Option ...: Market=, BS=, t=, sigma=" lines
    collection,           \* documents in undervalued_options (MongoDB)
    insertCalls,          \* calls of collection.insert_one
    undervalued_options,  \* the list scan_options builds
    result,               \* what scan_options gave its caller
    tte                   \* a stand-alone call of time_to_expiration

vars == <<pc, test_date, response, fetchCount, clientOpen, options_data, idx,
          log, collection, insertCalls, undervalued_options, result, tte>>

scanVars == <<pc, test_date, response, fetchCount, clientOpen, options_data,
              idx, log, collection, insertCalls, undervalued_options, result>>

----------------------------------------------------------------------------
(* Bounds *)

MaxChain == 3          \* longest option chain a response carries
MaxYearSpan == 1       \* stand-alone dates range over 2023 .. 2023 + span

----------------------------------------------------------------------------
(* Arithmetic helpers *)

Max(a, b) == IF a >= b THEN a ELSE b

\* Division rounding toward zero (b > 0).
TDiv(a, b) == IF a >= 0 THEN a \div b ELSE -((-a) \div b)

\* Newton's iteration for floor(sqrt(n)), from a guess x >= sqrt(n).
IsqrtIter[n \in Nat, x \in Nat] ==
    IF (x + n \div x) \div 2 >= x THEN x
    ELSE IsqrtIter[n, (x + n \div x) \div 2]

\* floor(sqrt(n))
Isqrt(n) == IF n <= 0 THEN 0 ELSE IsqrtIter[n, n]

----------------------------------------------------------------------------
(* datetime.strptime(s, "%Y-%m-%d") and the day difference *)

IsLeap(y) == (y % 4 = 0) /\ ((y % 100 # 0) \/ (y % 400 = 0))

DaysInMonth(y, m) ==
    CASE m \in {1, 3, 5, 7, 8, 10, 12} -> 31
      [] m \in {4, 6, 9, 11} -> 30
      [] OTHER -> IF IsLeap(y) THEN 29 ELSE 28

\* strptime raises ValueError unless the fields form a calendar date.
Parseable(d) ==
    /\ d[1] >= 1 /\ d[1] <= 9999
    /\ d[2] >= 1 /\ d[2] <= 12
    /\ d[3] >= 1 /\ d[3] <= DaysInMonth(d[1], d[2])

RECURSIVE DaysBeforeMonth(_, _)
DaysBeforeMonth(y, m) ==
    IF m <= 1 THEN 0 ELSE DaysBeforeMonth(y, m - 1) + DaysInMonth(y, m - 1)

\* Proleptic Gregorian ordinal of a parsed date (day 1 = 0001-01-01).
Ordinal(d) ==
    LET y == d[1] - 1
    IN  y * 365 + y \div 4 - y \div 100 + y \div 400
        + DaysBeforeMonth(d[1], d[2]) + d[3]

DaysPerYear == 365     \* the divisor 365.0
Epsilon == 365         \* the clamp 0.0001, in units of 1/3650000 year

\* Faulty variant: time_to_expiration without its max().
TimeToExpirationUnclamped(expiration_date, reference_date) ==
    (Ordinal(expiration_date) - Ordinal(reference_date)) * 10000

\* time_to_expiration for parseable arguments, in units of 1/3650000 year.
TimeToExpiration(expiration_date, reference_date) ==
    Max((Ordinal(expiration_date) - Ordinal(reference_date)) * 10000, Epsilon)

\* The call as a whole: a ValueError, or the value.
time_to_expiration(expiration_date, reference_date) ==
    IF Parseable(expiration_date) /\ Parseable(reference_date)
    THEN [raised |-> FALSE, t |-> TimeToExpiration(expiration_date, reference_date)]
    ELSE [raised |-> TRUE, t |-> 0]

----------------------------------------------------------------------------
(* JSON values and float() *)

Null == [type |-> "null", text |-> ""]
Str(s) == [type |-> "str", text |-> s]
Num(s) == [type |-> "num", text |-> s]

\* The decimal literals that occur, with their value in units of 1/10000.
DecimalValue ==
    [s \in {"0", "0.00", "0.0000", "0.2500", "1.00", "3.00", "30.00",
            "32.00", "150.00", "200.00"} |->
        CASE s = "0" -> 0
          [] s = "0.00" -> 0
          [] s = "0.0000" -> 0
          [] s = "0.2500" -> 2500
          [] s = "1.00" -> 10000
          [] s = "3.00" -> 30000
          [] s = "30.00" -> 300000
          [] s = "32.00" -> 320000
          [] s = "150.00" -> 1500000
          [] s = "200.00" -> 2000000]

\* float(v): TypeError for None, ValueError for text that is no number.
FloatRaises(v) == v.type = "null" \/ v.text \notin DOMAIN DecimalValue

Float(v) == DecimalValue[v.text]

\* Python truth value of a JSON value: None, "" and the number 0 are falsy;
\* every non-empty string is truthy, whatever number it spells.
Truthy(v) ==
    CASE v.type = "null" -> FALSE
      [] v.type = "str" -> v.text # ""
      [] OTHER -> Float(v) # 0

----------------------------------------------------------------------------
(* norm.cdf, np.log, np.exp, np.sqrt in fixed point *)

\* An IEEE result: finite v, or +inf, -inf, nan.
Fin(v) == [k |-> "fin", v |-> v]
PInf == [k |-> "pinf", v |-> 0]
NInf == [k |-> "ninf", v |-> 0]
NaN == [k |-> "nan", v |-> 0]

\* Phi at 0, 0.5, 1, ..., 4 (units of 1/10000).
PhiTable == <<5000, 6915, 8413, 9332, 9772, 9938, 9987, 9998, 10000>>

\* Phi(x) for x >= 0 in thousandths, by linear interpolation.
PhiPos(x) ==
    IF x >= 4000 THEN 10000
    ELSE LET i == x \div 500 + 1
             f == x % 500
         IN  PhiTable[i] + ((PhiTable[i + 1] - PhiTable[i]) * f) \div 500

\* norm.cdf(d), d in thousandths: a value in 0 .. 10000, or nan.
NormCdf(d) ==
    CASE d.k = "pinf" -> Fin(10000)
      [] d.k = "ninf" -> Fin(0)
      [] d.k = "nan" -> NaN
      [] OTHER -> IF d.v >= 0 THEN Fin(PhiPos(d.v))
                  ELSE Fin(10000 - PhiPos(-d.v))

Neg(d) ==
    CASE d.k = "pinf" -> NInf
      [] d.k = "ninf" -> PInf
      [] d.k = "nan" -> NaN
      [] OTHER -> Fin(-d.v)

\* np.log(S/K) = 2 atanh((S-K)/(S+K)), S and K > 0 in 1/10000.
LnRatio(S, K) ==
    LET s == S \div 10
        k == K \div 10
        y == TDiv((s - k) * 10000, s + k)
        y2 == (y * y) \div 10000
        y3 == TDiv(y * y2, 10000)
        y5 == TDiv(y3 * y2, 10000)
        y7 == TDiv(y5 * y2, 10000)
    IN  2 * (y + TDiv(y3, 3) + TDiv(y5, 5) + TDiv(y7, 7))

\* np.exp(-x) for small x >= 0 in 1/10000.
ExpNeg(x) ==
    LET x2 == (x * x) \div 10000
    IN  10000 - x + x2 \div 2 - ((x2 * x) \div 10000) \div 6

\* The d1 and d2 both pricing functions compute (lines 15-16, 21-22).
D1D2(S, K, sigma, r, t) ==
    LET t4 == t \div DaysPerYear                  \* t in 1/10000 year
        sqT == Isqrt(t4 * 10000)                  \* np.sqrt(t)
        den == (sigma * sqT) \div 10000           \* sigma * np.sqrt(t)
        num == LnRatio(S, K)
               + ((r + ((sigma * sigma) \div 10000) \div 2) * t4) \div 10000
        d1 == IF den # 0 THEN Fin(TDiv(num * 1000, den))
              ELSE IF num > 0 THEN PInf
              ELSE IF num < 0 THEN NInf
              ELSE NaN
        d2 == IF d1.k = "fin" THEN Fin(d1.v - den \div 10) ELSE d1
    IN  [d1 |-> d1, d2 |-> d2,
         Kdisc |-> (((K \div 10) * ExpNeg((r * t4) \div 10000)) \div 10000)]

\* a * p / 10000 for a price a (thousandths) and a probability p.
Weigh(a, p) == (a * p) \div 1000

black_scholes_call(S, K, sigma, r, t) ==
    LET d == D1D2(S, K, sigma, r, t)
        n1 == NormCdf(d.d1)
        n2 == NormCdf(d.d2)
    IN  IF n1.k = "nan" \/ n2.k = "nan" THEN NaN
        ELSE Fin(Weigh(S \div 10, n1.v) - Weigh(d.Kdisc, n2.v))

black_scholes_put(S, K, sigma, r, t) ==
    LET d == D1D2(S, K, sigma, r, t)
        n1 == NormCdf(Neg(d.d1))
        n2 == NormCdf(Neg(d.d2))
    IN  IF n1.k = "nan" \/ n2.k = "nan" THEN NaN
        ELSE Fin(Weigh(d.Kdisc, n2.v) - Weigh(S \div 10, n1.v))

----------------------------------------------------------------------------
(* Inputs *)

S == 1758400            \* the hardcoded spot price 175.84
r == 500                \* the rate 0.05
sigma_default == 3000   \* the default volatility 0.3
underlying_ticker == "AAPL"

Opt(cp, strike, exp, bid, ask, vol) ==
    [call_put |-> cp, strike |-> strike, expiration |-> exp,
     bid |-> bid, ask |-> ask, vol |-> vol]

\* Rows of option_chain as the DoltHub JSON API delivers them.
ChainRows ==
    { Opt("Call", Str("150.00"), <<2023, 11, 17>>, Str("1.00"), Str("3.00"), Str("0.2500")),
      Opt("Call", Str("200.00"), <<2023, 11, 17>>, Str("1.00"), Str("3.00"), Str("0.2500")),
      Opt("Put", Str("150.00"), <<2023, 10, 18>>, Str("0.00"), Str("0.00"), Null),
      Opt("Put", Str("200.00"), <<2023, 10, 17>>, Str("1.00"), Str("3.00"), Str("0.0000")),
      Opt("Put", Str("200.00"), <<2023, 11, 17>>, Str("30.00"), Str("32.00"), Num("0")),
      Opt("Call", Str("150.00"), <<2024, 3, 1>>, Str("1.00"), Str("3.00"), Str("")),
      Opt("Call", Str("150.00"), <<2023, 2, 30>>, Str("1.00"), Str("3.00"), Str("0.2500")),
      Opt("Put", Str("150.00"), <<2023, 11, 17>>, Null, Str("3.00"), Str("0.2500")) }

Chains == UNION { [1..n -> ChainRows] : n \in 0..MaxChain }

TestDates == { <<2023, 10, 18>>, <<2023, 11, 17>>, <<2023, 13, 1>> }

\* What requests.get may produce: an exception, or a response with a status
\* code and a body.  The body is no JSON ("invalid"), JSON that is not an
\* object ("array"), or a JSON object ("object") with a
\* query_execution_status and possibly the key "rows".
Resp(net_ok, status_code, body, status, has_rows, rows) ==
    [net_ok |-> net_ok, status_code |-> status_code, body |-> body,
     status |-> status, has_rows |-> has_rows, rows |-> rows]

NoResponse == Resp(FALSE, 0, "none", "", FALSE, <<>>)

Responses ==
    { Resp(FALSE, 0, "none", "", FALSE, <<>>),
      Resp(TRUE, 500, "invalid", "", FALSE, <<>>),
      Resp(TRUE, 200, "invalid", "", FALSE, <<>>),
      Resp(TRUE, 200, "array", "", FALSE, <<>>),
      Resp(TRUE, 200, "object", "Error", FALSE, <<>>),
      Resp(TRUE, 200, "object", "Error", TRUE, <<>>),
      Resp(TRUE, 200, "object", "Success", FALSE, <<>>) }
    \cup { Resp(TRUE, 200, "object", "Success", TRUE, rows) : rows \in Chains }

----------------------------------------------------------------------------
(* fetch_dolthub_options *)

\* Faulty variant: a payload that is not a successful one raises as well.
FetchRaisesStrict(resp) ==
    \/ ~resp.net_ok
    \/ resp.status_code # 200
    \/ resp.body # "object"
    \/ ~(resp.status = "Success" /\ resp.has_rows)

\* The call raises: requests.get raised, the status code is not 200,
\* response.json() raised, or data.get raised (data is no dict).
FetchRaises(resp) ==
    \/ ~resp.net_ok
    \/ resp.status_code # 200
    \/ resp.body # "object"

\* The rows a call that does not raise returns.
FetchRows(resp) ==
    IF resp.status = "Success" /\ resp.has_rows THEN resp.rows ELSE <<>>

----------------------------------------------------------------------------
(* One iteration of the for loop, lines 76-86 *)

\* sigma = float(option["vol"]) if option["vol"] else sigma_default
Sigma(option) ==
    IF Truthy(option.vol) THEN Float(option.vol) ELSE sigma_default

\* A float() or strptime of the iteration raises.
EvalRaises(option, ref) ==
    \/ FloatRaises(option.strike)
    \/ FloatRaises(option.bid)
    \/ FloatRaises(option.ask)
    \/ (Truthy(option.vol) /\ FloatRaises(option.vol))
    \/ time_to_expiration(option.expiration, ref).raised

\* The values of an iteration that does not raise, as line 86 logs them.
Evaluate(option, ref) ==
    LET is_call == option.call_put = "Call"
        K == Float(option.strike)
        market_price == (Float(option.bid) + Float(option.ask)) \div 2
        sigma == Sigma(option)
        t == time_to_expiration(option.expiration, ref).t
        bs_price == IF is_call THEN black_scholes_call(S, K, sigma, r, t)
                    ELSE black_scholes_put(S, K, sigma, r, t)
    IN  [is_call |-> is_call, K |-> K, market_price |-> market_price,
         sigma |-> sigma, t |-> t, bs_price |-> bs_price]

\* Faulty variant: equality is flagged too.
IsUndervaluedOrEqual(market_price, bs_price) ==
    bs_price.k = "fin" /\ market_price <= bs_price.v

\* market_price < bs_price (false when bs_price is nan)
IsUndervalued(market_price, bs_price) ==
    bs_price.k = "fin" /\ market_price < bs_price.v

\* Faulty variant: the difference is taken the wrong way round.
ResultDictSwapped(i, option, e) ==
    [row |-> i,
     UnderlyingTicker |-> underlying_ticker,
     OptionTicker |-> <<underlying_ticker, option.expiration,
                        IF e.is_call THEN "C" ELSE "P", option.strike.text>>,
     Type |-> IF e.is_call THEN "Call" ELSE "Put",
     S |-> S, K |-> e.K, sigma |-> e.sigma, r |-> r, t |-> e.t,
     MarketPrice |-> e.market_price,
     BlackScholesPrice |-> e.bs_price.v,
     Undervaluation |-> e.market_price - e.bs_price.v]

\* The dict of lines 89-102 for row i (row is not a key of the dict: it
\* records which row of the chain the dict was built from).
ResultDict(i, option, e) ==
    [row |-> i,
     UnderlyingTicker |-> underlying_ticker,
     OptionTicker |-> <<underlying_ticker, option.expiration,
                        IF e.is_call THEN "C" ELSE "P", option.strike.text>>,
     Type |-> IF e.is_call THEN "Call" ELSE "Put",
     S |-> S, K |-> e.K, sigma |-> e.sigma, r |-> r, t |-> e.t,
     MarketPrice |-> e.market_price,
     BlackScholesPrice |-> e.bs_price.v,
     Undervaluation |-> e.bs_price.v - e.market_price]

----------------------------------------------------------------------------
(* scan_options *)

Pending == [kind |-> "pending", value |-> <<>>]
Returned(v) == [kind |-> "value", value |-> v]
ReturnedNone == [kind |-> "none", value |-> <<>>]
Raised == [kind |-> "raised", value |-> <<>>]

NoCall == [pc |-> "idle", expiration |-> <<1, 1, 1>>, reference |-> <<1, 1, 1>>,
           raised |-> FALSE, t |-> 0]

Init ==
    /\ pc = "start"
    /\ test_date \in TestDates
    /\ response = NoResponse
    /\ fetchCount = 0
    /\ clientOpen = FALSE
    /\ options_data = <<>>
    /\ idx = 0
    /\ log = <<>>
    /\ collection = <<>>
    /\ insertCalls = 0
    /\ undervalued_options = <<>>
    /\ result = Pending
    /\ tte = NoCall

\* Lines 57-59: the client is created.
Connect ==
    /\ pc = "start"
    /\ pc' = "fetch"
    /\ clientOpen' = TRUE
    /\ UNCHANGED <<test_date, response, fetchCount, options_data, idx, log,
                   collection, insertCalls, undervalued_options, result, tte>>

\* Line 62, fetch_dolthub_options returns rows.
FetchReturn ==
    /\ pc = "fetch"
    /\ \E resp \in Responses :
        /\ ~FetchRaises(resp)
        /\ response' = resp
        /\ options_data' = FetchRows(resp)
    /\ fetchCount' = fetchCount + 1
    /\ pc' = "check"
    /\ UNCHANGED <<test_date, clientOpen, idx, log, collection, insertCalls,
                   undervalued_options, result, tte>>

\* Line 62, fetch_dolthub_options raises: scan_options ends with the error.
FetchRaise ==
    /\ pc = "fetch"
    /\ \E resp \in Responses :
        /\ FetchRaises(resp)
        /\ response' = resp
    /\ fetchCount' = fetchCount + 1
    /\ pc' = "raised"
    /\ result' = Raised
    /\ UNCHANGED <<test_date, clientOpen, options_data, idx, log, collection,
                   insertCalls, undervalued_options, tte>>

\* Faulty variant: the early return gives None.
EmptyReturnNone ==
    /\ pc = "check"
    /\ options_data = <<>>
    /\ pc' = "returned"
    /\ result' = ReturnedNone
    /\ UNCHANGED <<test_date, response, fetchCount, clientOpen, options_data,
                   idx, log, collection, insertCalls, undervalued_options, tte>>

\* Lines 65-67: no rows, return [] (client.close() is not reached).
EmptyReturn ==
    /\ pc = "check"
    /\ options_data = <<>>
    /\ pc' = "returned"
    /\ result' = Returned(<<>>)
    /\ UNCHANGED <<test_date, response, fetchCount, clientOpen, options_data,
                   idx, log, collection, insertCalls, undervalued_options, tte>>

\* Lines 65-73: there are rows, the loop starts.
BeginLoop ==
    /\ pc = "check"
    /\ options_data # <<>>
    /\ pc' = "loop"
    /\ undervalued_options' = <<>>
    /\ idx' = 0
    /\ UNCHANGED <<test_date, response, fetchCount, clientOpen, options_data,
                   log, collection, insertCalls, result, tte>>

\* Lines 76-84 raise for the next row.
IterRaise ==
    /\ pc = "loop"
    /\ idx < Len(options_data)
    /\ EvalRaises(options_data[idx + 1], test_date)
    /\ pc' = "raised"
    /\ result' = Raised
    /\ UNCHANGED <<test_date, response, fetchCount, clientOpen, options_data,
                   idx, log, collection, insertCalls, undervalued_options, tte>>

\* Lines 76-88: the next row is priced and is not undervalued.
IterSkip ==
    /\ pc = "loop"
    /\ idx < Len(options_data)
    /\ ~EvalRaises(options_data[idx + 1], test_date)
    /\ \E e \in {Evaluate(options_data[idx + 1], test_date)} :
           /\ ~IsUndervalued(e.market_price, e.bs_price)
           /\ log' = Append(log, [row |-> idx + 1] @@ e)
    /\ idx' = idx + 1
    /\ UNCHANGED <<pc, test_date, response, fetchCount, clientOpen, options_data,
                   collection, insertCalls, undervalued_options, result, tte>>

\* Faulty variant: the flagged row is stored but not collected.
IterInsertNoAppend ==
    /\ pc = "loop"
    /\ idx < Len(options_data)
    /\ ~EvalRaises(options_data[idx + 1], test_date)
    /\ \E e \in {Evaluate(options_data[idx + 1], test_date)} :
         \E doc \in {[oid |-> insertCalls + 1]
                      @@ ResultDict(idx + 1, options_data[idx + 1], e)} :
           /\ IsUndervalued(e.market_price, e.bs_price)
           /\ log' = Append(log, [row |-> idx + 1] @@ e)
           /\ collection' = Append(collection, doc)
    /\ insertCalls' = insertCalls + 1
    /\ idx' = idx + 1
    /\ UNCHANGED <<pc, test_date, response, fetchCount, clientOpen, options_data,
                   undervalued_options, result, tte>>

\* Lines 76-106: the next row is undervalued; insert_one stores the dict
\* (adding its _id, here oid) and a copy of it is appended to the list.
IterInsert ==
    /\ pc = "loop"
    /\ idx < Len(options_data)
    /\ ~EvalRaises(options_data[idx + 1], test_date)
    /\ \E e \in {Evaluate(options_data[idx + 1], test_date)} :
         \E doc \in {[oid |-> insertCalls + 1]
                      @@ ResultDict(idx + 1, options_data[idx + 1], e)} :
           /\ IsUndervalued(e.market_price, e.bs_price)
           /\ log' = Append(log, [row |-> idx + 1] @@ e)
           /\ collection' = Append(collection, doc)
           /\ undervalued_options' = Append(undervalued_options, doc)
    /\ insertCalls' = insertCalls + 1
    /\ idx' = idx + 1
    /\ UNCHANGED <<pc, test_date, response, fetchCount, clientOpen, options_data,
                   result, tte>>

\* Faulty variant: a failed insert is swallowed and the loop goes on.
IterInsertFailContinue ==
    /\ pc = "loop"
    /\ idx < Len(options_data)
    /\ ~EvalRaises(options_data[idx + 1], test_date)
    /\ \E e \in {Evaluate(options_data[idx + 1], test_date)} :
           /\ IsUndervalued(e.market_price, e.bs_price)
           /\ log' = Append(log, [row |-> idx + 1] @@ e)
    /\ insertCalls' = insertCalls + 1
    /\ idx' = idx + 1
    /\ UNCHANGED <<pc, test_date, response, fetchCount, clientOpen, options_data,
                   collection, undervalued_options, result, tte>>

\* Lines 76-104: the next row is undervalued and insert_one raises.
IterInsertFail ==
    /\ pc = "loop"
    /\ idx < Len(options_data)
    /\ ~EvalRaises(options_data[idx + 1], test_date)
    /\ \E e \in {Evaluate(options_data[idx + 1], test_date)} :
           /\ IsUndervalued(e.market_price, e.bs_price)
           /\ log' = Append(log, [row |-> idx + 1] @@ e)
    /\ insertCalls' = insertCalls + 1
    /\ pc' = "raised"
    /\ result' = Raised
    /\ UNCHANGED <<test_date, response, fetchCount, clientOpen, options_data,
                   idx, collection, undervalued_options, tte>>

\* Lines 108-109: the loop is over, the client is closed, the list returned.
Finish ==
    /\ pc = "loop"
    /\ idx = Len(options_data)
    /\ clientOpen' = FALSE
    /\ pc' = "returned"
    /\ result' = Returned(undervalued_options)
    /\ UNCHANGED <<test_date, response, fetchCount, options_data, idx, log,
                   collection, insertCalls, undervalued_options, tte>>

Next ==
    \/ Connect
    \/ FetchReturn
    \/ FetchRaise
    \/ EmptyReturn
    \/ BeginLoop
    \/ IterRaise
    \/ IterSkip
    \/ IterInsert
    \/ IterInsertFail
    \/ Finish

Spec == Init /\ [][Next]_vars

----------------------------------------------------------------------------
(* time_to_expiration called on its own *)

DateTexts ==
    { <<y, m, d>> : y \in 2023..(2023 + MaxYearSpan), m \in 1..12,
                    d \in {1, 28, 29, 30, 31} }

InitTime ==
    /\ pc = "start"
    /\ test_date = <<2023, 10, 18>>
    /\ response = NoResponse
    /\ fetchCount = 0
    /\ clientOpen = FALSE
    /\ options_data = <<>>
    /\ idx = 0
    /\ log = <<>>
    /\ collection = <<>>
    /\ insertCalls = 0
    /\ undervalued_options = <<>>
    /\ result = Pending
    /\ \E e \in DateTexts, f \in DateTexts :
         tte = [pc |-> "call", expiration |-> e, reference |-> f,
                raised |-> FALSE, t |-> 0]

\* Lines 49-53.
TimeCall ==
    /\ tte.pc = "call"
    /\ LET out == time_to_expiration(tte.expiration, tte.reference)
       IN  tte' = [tte EXCEPT !.pc = "done", !.raised = out.raised, !.t = out.t]
    /\ UNCHANGED scanVars

NextTime == TimeCall

SpecTime == InitTime /\ [][NextTime]_vars

----------------------------------------------------------------------------
(* Properties *)

Rows(recs) == { recs[j].row : j \in 1..Len(recs) }

\* The response is a failure of the data source in the narrow sense: no
\* response at all, a status code other than 200, or a body that is not a
\* JSON object.
TransportFailed ==
    \/ ~response.net_ok
    \/ response.status_code # 200
    \/ response.body \in {"none", "invalid", "array"}

\* The body is a JSON object but reports no success or has no "rows".
PayloadNotSuccessful ==
    /\ ~TransportFailed
    /\ ~(response.status = "Success" /\ response.has_rows)

\* C1: for every row of the chain the loop has finished, a record of that
\* row has been stored and collected (and, once the scan has returned, is in
\* the returned list) if and only if the logged market price is strictly
\* below the logged Black-Scholes price.
C1_FlaggedIffBelow ==
    \A i \in 1..idx :
        LET below == /\ log[i].bs_price.k = "fin"
                     /\ log[i].market_price < log[i].bs_price.v
        IN  /\ log[i].row = i
            /\ (i \in Rows(collection)) <=> below
            /\ (i \in Rows(undervalued_options)) <=> below
            /\ (pc = "returned") => ((i \in Rows(result.value)) <=> below)

\* A scan returned with a flagged row, and a row whose market price equals
\* its Black-Scholes price and is not in the result.
C1_Witness ==
    /\ pc = "returned"
    /\ Len(result.value) >= 1
    /\ \E i \in 1..Len(log) :
        /\ log[i].market_price = log[i].bs_price.v
        /\ i \notin Rows(result.value)

\* C2: for parseable dates time_to_expiration returns a value > 0: the
\* clamp 0.0001 (365 units of 1/3650000) when the expiration is on or before
\* the reference, and days / 365 (days * 10000 units) when it is after.
C2_TimeToExpiration ==
    (tte.pc = "done" /\ Parseable(tte.expiration) /\ Parseable(tte.reference)) =>
        LET days == Ordinal(tte.expiration) - Ordinal(tte.reference)
        IN  /\ ~tte.raised
            /\ tte.t > 0
            /\ (days <= 0) => (tte.t = 365)
            /\ (days > 0) => (tte.t = days * 10000)

\* A call with the expiration before the reference returned the clamp.
C2_Witness ==
    /\ tte.pc = "done"
    /\ ~tte.raised
    /\ Ordinal(tte.expiration) < Ordinal(tte.reference)
    /\ tte.t = Epsilon

C4_EmptyChain ==
    (fetchCount > 0 /\ ~TransportFailed /\ options_data = <<>>) =>
        /\ pc \in {"check", "returned"}
        /\ result # Raised
        /\ (pc = "returned" => result = Returned(<<>>))
        /\ insertCalls = 0
        /\ collection = <<>>

\* A scan returned on a successful response with zero rows.
C4_Witness ==
    /\ pc = "returned"
    /\ response.status = "Success"
    /\ response.has_rows
    /\ response.rows = <<>>

\* C5 as claimed: the volatility of every pricing call is the row's own
\* when that is present and not zero, sigma_default otherwise, and so is
\* never <= 0.
C5_SigmaOwnOrDefault ==
    \A i \in 1..Len(log) :
        LET vol == options_data[log[i].row].vol
            own == /\ vol.type # "null"
                   /\ vol.text \in DOMAIN DecimalValue
                   /\ DecimalValue[vol.text] # 0
        IN  /\ log[i].sigma = (IF own THEN DecimalValue[vol.text] ELSE sigma_default)
            /\ log[i].sigma > 0

\* C6: a failure while row i is processed (insert_one raises, a date or a
\* number does not parse) ends the scan with the error: no result, no later
\* row evaluated or stored, and the records of the rows before i stay stored.
C6_State ==
    /\ (insertCalls # Len(collection)) => pc = "raised"
    /\ (pc = "raised" /\ options_data # <<>>) =>
          /\ result = Raised
          /\ Len(log) <= idx + 1
          /\ \A k \in 1..Len(log) : log[k].row <= idx + 1
          /\ \A j \in 1..Len(collection) : collection[j].row <= idx
          /\ \A k \in 1..idx :
                (log[k].bs_price.k = "fin" /\ log[k].market_price < log[k].bs_price.v)
                    => k \in Rows(collection)

C6_Step ==
    /\ pc # "raised"
    /\ (pc = "loop" /\ idx < Len(options_data)
        /\ ~Parseable(options_data[idx + 1].expiration)) => pc' = "raised"
    /\ Len(collection') >= Len(collection)
    /\ SubSeq(collection', 1, Len(collection)) = collection

C6_FailureStopsScan == [](C6_State) /\ [][C6_Step]_vars

\* The insert for the third row raised after an earlier row was stored.
C6_Witness ==
    /\ pc = "raised"
    /\ idx = 2
    /\ Len(log) = 3
    /\ Len(collection) >= 1
    /\ insertCalls = Len(collection) + 1

\* C7: every record stored, collected or returned has Undervaluation equal
\* to BlackScholesPrice - MarketPrice and > 0, and t > 0.
C7_RecordsPositive ==
    \A recs \in {collection, undervalued_options, result.value} :
        \A j \in 1..Len(recs) :
            /\ recs[j].Undervaluation = recs[j].BlackScholesPrice - recs[j].MarketPrice
            /\ recs[j].Undervaluation > 0
            /\ recs[j].t > 0

\* A scan returned a record of a row that expired before the reference date.
C7_Witness ==
    /\ pc = "returned"
    /\ \E j \in 1..Len(result.value) :
        /\ result.value[j].t = Epsilon
        /\ result.value[j].Undervaluation > 0

\* C9: when a scan has returned, every row was evaluated exactly once and
\* in order, there were as many inserts as returned records, the stored
\* documents are exactly the returned records, each once, and the returned
\* records are in the order of their rows.
C9_CompleteScan ==
    (pc = "returned") =>
        /\ Len(log) = Len(options_data)
        /\ \A i \in 1..Len(log) : log[i].row = i
        /\ insertCalls = Len(result.value)
        /\ collection = result.value
        /\ \A j \in 1..Len(result.value), k \in 1..Len(result.value) :
              (j < k) => /\ result.value[j].row < result.value[k].row
                         /\ result.value[j].oid < result.value[k].oid

\* A scan of three rows returned two records, one row skipped.
C9_Witness ==
    /\ pc = "returned"
    /\ Len(options_data) = 3
    /\ Len(result.value) = 2
    /\ Len(collection) = 2

\* C10 as claimed: whenever scan_options has returned, the client is closed.
C10_ClosedOnReturn == (pc = "returned") => ~clientOpen

====
